---- MODULE Spec2Model ----
(***************************************************************************)
(* photo-mosaic (src/src/main.rs): the two commands of the program,        *)
(* `preprocess` (process_pictures) and `create` (cmd_create, create_mosaic,*)
(* compute_main_color_by_chunk, find_closest_pic_by_color), as one state   *)
(* machine with a program counter and a call stack, and the pure functions *)
(* they call (compute_main_color, compute_ratio, ratio_to_dim,             *)
(* color_distance) as operators.                                           *)
(*                                                                         *)
(* Images.  A decoded image is a grid of cols x rows solid cells of        *)
(* cellw x cellh pixels each (the "solid-quadrant" images of the end to    *)
(* end scenarios); `cells` lists the cell colours in row-major order.  A   *)
(* pixel buffer (ImageBuffer) is its width, its height and its pixels run  *)
(* length encoded: a sequence of runs [n, rgb] of n equal pixels.          *)
(*                                                                         *)
(* Integers.  u32 sums of compute_main_color keep their 32 bits: a u32 is  *)
(* the pair <<hi, lo>> of its 16-bit halves, so that sums up to and past   *)
(* 2^32 - 1 are exact.  An overflow panics in a build with overflow        *)
(* checks ("debug") and wraps in one without ("release"): `build` is       *)
(* chosen in the initial state.  Every other u32 of the program stays far  *)
(* below 2^31 within the bounds below and is a plain integer.              *)
(***************************************************************************)
EXTENDS Integers, Sequences, FiniteSets

VARIABLES
  pc,             \* position of the running function
  stack,          \* return positions of the callers
  err,            \* "none", or the panic that ended the run
  build,          \* "debug" (overflow checks) or "release" (wrapping)
  \* ---- preprocess: process_pictures
  files,          \* files: &[DirEntry], the walk of the gallery folder
  file_i,         \* i of `for (i, file) in files.iter().enumerate()`
  pp_ratio,       \* ratio of the file being processed
  pp_res,         \* res: Vec<ProcessedPicture>
  folder,         \* thumbnails of the output folder: name -> [width, height, src]
  stdout,         \* the files announced on stdout, in order
  \* ---- create: cmd_create
  metadata,       \* metadata.pictures as loaded
  model,          \* the decoded model image
  ratio,          \* compute_ratio(w, h) of the model
  pics,           \* the pictures of the model's ratio
  exit_code,      \* the code the process exited with, -1 before (and on a panic)
  stderr,         \* the ratio named by the diagnostic, or <<>>
  saved,          \* whether the output image was written
  calls,          \* the functions entered so far
  \* ---- compute_main_color_by_chunk
  chunk_dim,      \* <<chunk_w, chunk_h>>
  ck_x, ck_y,     \* x, y of the two while loops
  color_by_chunk, \* res: Vec<[u8; 3]>
  views,          \* the regions asked of img.view, in order
  \* ---- create_mosaic
  thumb_dim,      \* ratio_to_dim(ratio, THUMBNAIL_SIZE)
  canvas,         \* <<res.width(), res.height()>>
  x, y,           \* the cursor
  tile_k,         \* number of colours of color_by_chunk consumed
  placed,         \* the copies made: [pic, x, y, w, h] in order
  \* ---- find_closest_pic_by_color
  fc_pics,        \* pics: &[ProcessedPicture]
  fc_color,       \* color: [u8; 3]
  fc_i,           \* i of `for i in 1..pics.len()` (pics[i] is fc_pics[i + 1])
  closest,        \* <<index, distance>>
  fc_ret,         \* index of the returned entry, -1 before the return
  \* ---- compute_main_color alone
  cmc_img,        \* img: &ImageBuffer
  cmc_ret         \* [panic, rgb], or <<>> before the call

preVars == <<files, file_i, pp_ratio, pp_res, folder, stdout>>
cmdVars == <<metadata, model, ratio, pics, exit_code, stderr, saved>>
chunkVars == <<chunk_dim, ck_x, ck_y, color_by_chunk, views>>
mosaicVars == <<thumb_dim, canvas, x, y, tile_k, placed>>
fcVars == <<fc_pics, fc_color, fc_i, closest, fc_ret>>
cmcVars == <<cmc_img, cmc_ret>>
vars == <<pc, stack, err, build, calls, preVars, cmdVars, chunkVars, mosaicVars,
          fcVars, cmcVars>>

----------------------------------------------------------------------------
\* Program constants.
THUMBNAIL_SIZE == 64
CHUNK_SIZE == 8

\* Bounds of the model.
MaxFiles == 3        \* files of a gallery walk
MaxDim == 6          \* width and height of the images of SpecRatio
MaxPics == 3         \* entries of the slice given to find_closest_pic_by_color
MaxMeta == 2         \* entries of the catalogue loaded by cmd_create
MaxGrid == 2         \* cells per row and per column of a model image
MaxSide == 5         \* width and height of the image of SpecChunk
MaxChunk == 3        \* chunk_w and chunk_h of SpecChunk
MaxCells == 2        \* cells per row and per column of an image of SpecColor

Builds == {"debug", "release"}

----------------------------------------------------------------------------
\* u32 arithmetic.  A sum is kept as <<hi, lo>>, its value hi * 2^16 + lo
\* with lo < 2^16: it is a u32 while hi < 2^16.
Half == 65536

\* n, a plain integer below 2^31, as a pair
Split(n) == <<n \div Half, n % Half>>

\* the mathematical sum of two pairs
Plus(a, b) == <<a[1] + b[1] + ((a[2] + b[2]) \div Half), (a[2] + b[2]) % Half>>

\* whether the sum has passed u32::MAX
Overflows(a) == a[1] >= Half

\* the sum as the u32 a wrapping addition leaves
Wrap(a) == <<a[1] % Half, a[2]>>

\* a / n in u32 (truncating), 0 < n <= 2^30: by halves, a = 2 * h + b.
U32Div(a, n) ==
  LET h == a[1] * (Half \div 2) + (a[2] \div 2)
      b == a[2] % 2
      r == 2 * (h % n) + b
  IN  2 * (h \div n) + (IF r >= n THEN 1 ELSE 0)

----------------------------------------------------------------------------
\* Images.
Width(img) == img.cellw * img.cols
Height(img) == img.cellh * img.rows

\* get_pixel(px, py) of a decoded image.
Pixel(img, px, py) ==
  img.cells[(py \div img.cellh) * img.cols + (px \div img.cellw) + 1]

\* img.to_rgba(): the whole image as a pixel buffer, one run per cell.  The
\* sums of compute_main_color do not depend on the order of the pixels, nor
\* does whether they overflow (the sums only grow).
ToRgba(img) ==
  [width |-> Width(img), height |-> Height(img),
   runs |-> [j \in 1..(img.cols * img.rows) |->
               [n |-> img.cellw * img.cellh, rgb |-> img.cells[j]]]]

\* img.view(vx, vy, w, h).to_image(): the region's pixels, row by row.
ViewToImage(img, vx, vy, w, h) ==
  [width |-> w, height |-> h,
   runs |-> [j \in 1..(w * h) |->
               [n |-> 1, rgb |-> Pixel(img, vx + ((j - 1) % w), vy + ((j - 1) \div w))]]]

\* The mathematical sum of channel c over the pixels of runs lo..hi, by
\* halves of the run list.  The additions of the loop (line 35) only grow
\* color_sums[c]: one of them overflows exactly when the mathematical sum
\* of all the pixels passes u32::MAX, and wrapping additions leave that
\* sum modulo 2^32.
RECURSIVE SumRuns(_, _, _, _)
SumRuns(runs, c, lo, hi) ==
  IF lo > hi THEN <<0, 0>>
  ELSE IF lo = hi THEN Split(runs[lo].n * runs[lo].rgb[c])
  ELSE LET mid == (lo + hi) \div 2
       IN  Plus(SumRuns(runs, c, lo, mid), SumRuns(runs, c, mid + 1, hi))

\* lines 32-37
ColorSums(img) == [c \in 1..3 |-> SumRuns(img.runs, c, 1, Len(img.runs))]

\* compute_main_color: [panic, rgb].  The additions of the loop panic on
\* overflow in a debug build; the division panics on a zero pixel count.
compute_main_color(img, b) ==
  LET sums == ColorSums(img)
      n == img.width * img.height
  IN  IF b = "debug" /\ \E c \in 1..3 : Overflows(sums[c])
        THEN [panic |-> "overflow", rgb |-> <<0, 0, 0>>]
      ELSE IF n = 0
        THEN [panic |-> "div_zero", rgb |-> <<0, 0, 0>>]
      ELSE [panic |-> "none",
            rgb |-> [c \in 1..3 |-> U32Div(Wrap(sums[c]), n) % 256]]

----------------------------------------------------------------------------
\* Ratios.
RECURSIVE Gcd(_, _)
Gcd(a, b) == IF b = 0 THEN a ELSE Gcd(b, a % b)

\* mutant of compute_ratio: only the width is divided
ComputeRatioWidthOnly(w, h) ==
  LET gcd == Gcd(w, h)
  IN  <<w \div gcd, h>>

compute_ratio(w, h) ==
  LET gcd == Gcd(w, h)
  IN  <<w \div gcd, h \div gcd>>

ratio_to_dim(r, size) ==
  IF r[1] > r[2]
    THEN <<size, (size * r[2]) \div r[1]>>
    ELSE <<(size * r[1]) \div r[2], size>>

----------------------------------------------------------------------------
\* Colour distance.
Sq(n) == n * n

\* the sum of the squared channel differences (the i32 `a`)
SqDist(c1, c2) == Sq(c1[1] - c2[1]) + Sq(c1[2] - c2[2]) + Sq(c1[3] - c2[3])

\* floor of the square root, by bisection in lo..hi
RECURSIVE Isqrt(_, _, _)
Isqrt(a, lo, hi) ==
  IF lo = hi THEN lo
  ELSE LET mid == (lo + hi + 1) \div 2
       IN  IF mid * mid <= a THEN Isqrt(a, mid, hi) ELSE Isqrt(a, lo, mid - 1)

color_distance(c1, c2) == Isqrt(SqDist(c1, c2), 0, 442)

----------------------------------------------------------------------------
\* Values of the variables a command does not use.
IdlePre ==
  /\ files = <<>> /\ file_i = 0 /\ pp_ratio = <<0, 0>> /\ pp_res = <<>>
  /\ folder = <<>> /\ stdout = <<>>

IdleCmd ==
  /\ metadata = <<>> /\ model = <<>> /\ ratio = <<0, 0>> /\ pics = <<>>
  /\ exit_code = -1 /\ stderr = <<>> /\ saved = FALSE

IdleChunk ==
  /\ chunk_dim = <<0, 0>> /\ ck_x = 0 /\ ck_y = 0 /\ color_by_chunk = <<>>
  /\ views = <<>>

IdleMosaic ==
  /\ thumb_dim = <<0, 0>> /\ canvas = <<0, 0>> /\ x = 0 /\ y = 0 /\ tile_k = 0
  /\ placed = <<>>

IdleFc ==
  /\ fc_pics = <<>> /\ fc_color = <<0, 0, 0>> /\ fc_i = 0 /\ closest = <<0, 0>>
  /\ fc_ret = -1

IdleCmc == cmc_img = <<>> /\ cmc_ret = <<>>

\* A panic ends the run.
Panic(what) == pc' = "panic" /\ err' = what /\ stack' = <<>>

----------------------------------------------------------------------------
\* preprocess: process_pictures(files, output_folder).

\* A solid image of w x h pixels.
Solid(w, h, rgb) == [cellw |-> w, cellh |-> h, cols |-> 1, rows |-> 1, cells |-> <<rgb>>]

White == <<255, 255, 255>>
Red == <<255, 0, 0>>
Green == <<0, 255, 0>>
Blue == <<0, 0, 255>>

\* The files of a recursive walk: each of its own path, dir/name.
Dirs == {"a", "b"}
Names == {"p.jpg", "q.jpg"}
Outcomes == {"ok", "decode_err", "save_err"}

FileRecs(imgs) == [dir : Dirs, name : Names, outcome : Outcomes, img : imgs]

Walks(recs, lens) ==
  UNION {{s \in [1..n -> recs] :
            \A i, j \in 1..n : i < j => <<s[i].dir, s[i].name>> # <<s[j].dir, s[j].name>>}
         : n \in lens}

PreImages == {Solid(4, 4, Red), Solid(8, 6, Blue)}

RatioImages == {Solid(w, h, White) : w \in 1..MaxDim, h \in 1..MaxDim}

InitPreWith(walks) ==
  /\ pc = "pp_start" /\ stack = <<>> /\ err = "none" /\ build \in Builds
  /\ calls = {"process_pictures"}
  /\ files \in walks
  /\ file_i = 0 /\ pp_ratio = <<0, 0>> /\ pp_res = <<>> /\ folder = <<>>
  /\ stdout = <<>>
  /\ IdleCmd /\ IdleChunk /\ IdleMosaic /\ IdleFc /\ IdleCmc

InitPreprocess == InitPreWith(Walks(FileRecs(PreImages), 0..MaxFiles))

\* two files of any size, for the ratios
InitRatio ==
  InitPreWith({s \in [1..2 -> FileRecs(RatioImages)] :
                 /\ s[1].dir = "a" /\ s[1].name = "p.jpg"
                 /\ s[2].dir = "a" /\ s[2].name = "q.jpg"})

File == files[file_i + 1]

\* lines 77-83: the output folder exists from here on
PpStart ==
  /\ pc = "pp_start"
  /\ pc' = "pp_loop"
  /\ pp_res' = <<>>
  /\ UNCHANGED <<stack, err, build, calls, files, file_i, pp_ratio, folder, stdout,
                 cmdVars, chunkVars, mosaicVars, fcVars, cmcVars>>

\* lines 84-94: the file is announced, image::open fails, `continue`
PpSkipDecode ==
  /\ pc = "pp_loop" /\ file_i < Len(files)
  /\ File.outcome = "decode_err"
  /\ stdout' = Append(stdout, <<File.dir, File.name>>)
  /\ file_i' = file_i + 1
  /\ UNCHANGED <<pc, stack, err, build, calls, files, pp_ratio, pp_res, folder,
                 cmdVars, chunkVars, mosaicVars, fcVars, cmcVars>>

\* lines 84-99: the file is announced and decoded, its ratio computed
PpDecode ==
  /\ pc = "pp_loop" /\ file_i < Len(files)
  /\ File.outcome # "decode_err"
  /\ stdout' = Append(stdout, <<File.dir, File.name>>)
  /\ pp_ratio' = compute_ratio(Width(File.img), Height(File.img))
  /\ pc' = "pp_thumb"
  /\ UNCHANGED <<stack, err, build, calls, files, file_i, pp_res, folder,
                 cmdVars, chunkVars, mosaicVars, fcVars, cmcVars>>

\* lines 101-109: thumb.save fails, `continue`
PpSkipSave ==
  /\ pc = "pp_thumb"
  /\ File.outcome = "save_err"
  /\ file_i' = file_i + 1
  /\ pc' = "pp_loop"
  /\ UNCHANGED <<stack, err, build, calls, files, pp_ratio, pp_res, folder, stdout,
                 cmdVars, chunkVars, mosaicVars, fcVars, cmcVars>>

\* line 104: path.file_name()
ThumbName(f) == f.name

\* mutant of PushProcessed: the new entry goes first
PushFront(res, e) == <<e>> \o res

\* line 122: res.push(processed)
PushProcessed(res, e) == Append(res, e)

\* lines 101-122: the 64 x 64 thumbnail is saved under the file's base name
\* and the picture is pushed
PpPush ==
  /\ pc = "pp_thumb"
  /\ File.outcome = "ok"
  /\ LET thumb_name == ThumbName(File)
         main == compute_main_color(ToRgba(File.img), build)
     IN  /\ folder' = [n \in DOMAIN folder \cup {thumb_name} |->
                         IF n = thumb_name
                           THEN [width |-> THUMBNAIL_SIZE, height |-> THUMBNAIL_SIZE,
                                 src |-> file_i + 1]
                           ELSE folder[n]]
         /\ IF main.panic # "none"
              THEN /\ Panic(main.panic)
                   /\ UNCHANGED <<pp_res, file_i>>
              ELSE /\ pp_res' = PushProcessed(pp_res,
                                   [path |-> thumb_name, color_rgb |-> main.rgb,
                                    ratio_width |-> pp_ratio[1],
                                    ratio_height |-> pp_ratio[2]])
                   /\ file_i' = file_i + 1
                   /\ pc' = "pp_loop"
                   /\ UNCHANGED <<stack, err>>
  /\ UNCHANGED <<build, calls, files, pp_ratio, stdout,
                 cmdVars, chunkVars, mosaicVars, fcVars, cmcVars>>

\* line 125: the loop is over, res is returned
PpReturn ==
  /\ pc = "pp_loop" /\ file_i >= Len(files)
  /\ pc' = "pp_done"
  /\ UNCHANGED <<stack, err, build, calls, preVars,
                 cmdVars, chunkVars, mosaicVars, fcVars, cmcVars>>

NextPreprocess ==
  \/ PpStart
  \/ PpSkipDecode
  \/ PpDecode
  \/ PpSkipSave
  \/ PpPush
  \/ PpReturn

SpecPreprocess == InitPreprocess /\ [][NextPreprocess]_vars

SpecRatio == InitRatio /\ [][NextPreprocess]_vars

----------------------------------------------------------------------------
\* Calls and returns.
Call(callee, back) == pc' = callee /\ stack' = <<back>> \o stack

Return ==
  IF stack = <<>>
    THEN pc' = "done" /\ stack' = stack
    ELSE pc' = Head(stack) /\ stack' = Tail(stack)

----------------------------------------------------------------------------
\* compute_main_color_by_chunk(img, chunk_w, chunk_h), img the model.
chunk_w == chunk_dim[1]
chunk_h == chunk_dim[2]

\* lines 173-175
CkStart ==
  /\ pc = "ck_start"
  /\ color_by_chunk' = <<>> /\ views' = <<>> /\ ck_y' = 0
  /\ pc' = "ck_outer"
  /\ UNCHANGED <<stack, err, build, calls, chunk_dim, ck_x,
                 preVars, cmdVars, mosaicVars, fcVars, cmcVars>>

\* line 176: while y + chunk_h <= h
RowFits(yy, ch, h) == yy + ch <= h

\* mutant of ColumnFits: a chunk is emitted wherever it begins inside the image
ColumnStarts(xx, cw, w) == xx < w

\* line 178: while x + chunk_w <= w
ColumnFits(xx, cw, w) == xx + cw <= w

\* lines 179-180: reading a pixel outside the image panics
InBounds(img, vx, vy, w, h) == vx + w <= Width(img) /\ vy + h <= Height(img)

\* lines 176-177
CkRow ==
  /\ pc = "ck_outer"
  /\ RowFits(ck_y, chunk_h, Height(model))
  /\ ck_x' = 0
  /\ pc' = "ck_inner"
  /\ UNCHANGED <<stack, err, build, calls, chunk_dim, ck_y, color_by_chunk, views,
                 preVars, cmdVars, mosaicVars, fcVars, cmcVars>>

\* lines 178-181: the view of the chunk, its main colour, x += chunk_w
CkChunk ==
  /\ pc = "ck_inner"
  /\ ColumnFits(ck_x, chunk_w, Width(model))
  /\ views' = Append(views, [x |-> ck_x, y |-> ck_y, w |-> chunk_w, h |-> chunk_h])
  /\ IF ~InBounds(model, ck_x, ck_y, chunk_w, chunk_h)
       THEN Panic("bounds") /\ UNCHANGED <<color_by_chunk, ck_x>>
       ELSE LET main == compute_main_color(
                          ViewToImage(model, ck_x, ck_y, chunk_w, chunk_h), build)
            IN  IF main.panic # "none"
                  THEN Panic(main.panic) /\ UNCHANGED <<color_by_chunk, ck_x>>
                  ELSE /\ color_by_chunk' = Append(color_by_chunk, main.rgb)
                       /\ ck_x' = ck_x + chunk_w
                       /\ UNCHANGED <<pc, stack, err>>
  /\ UNCHANGED <<build, calls, chunk_dim, ck_y,
                 preVars, cmdVars, mosaicVars, fcVars, cmcVars>>

\* line 183: the row is over, y += chunk_h
CkRowEnd ==
  /\ pc = "ck_inner"
  /\ ~ColumnFits(ck_x, chunk_w, Width(model))
  /\ ck_y' = ck_y + chunk_h
  /\ pc' = "ck_outer"
  /\ UNCHANGED <<stack, err, build, calls, chunk_dim, ck_x, color_by_chunk, views,
                 preVars, cmdVars, mosaicVars, fcVars, cmcVars>>

\* line 185: res is returned
CkReturn ==
  /\ pc = "ck_outer"
  /\ ~RowFits(ck_y, chunk_h, Height(model))
  /\ Return
  /\ UNCHANGED <<err, build, calls, chunkVars,
                 preVars, cmdVars, mosaicVars, fcVars, cmcVars>>

NextChunk ==
  \/ CkStart
  \/ CkRow
  \/ CkChunk
  \/ CkRowEnd
  \/ CkReturn

----------------------------------------------------------------------------
\* find_closest_pic_by_color(pics, color).

\* line 158
FcStart ==
  /\ pc = "fc_start"
  /\ IF fc_pics = <<>>
       THEN Panic("index") /\ UNCHANGED <<closest, fc_i>>
       ELSE /\ closest' = <<0, color_distance(fc_pics[1].color_rgb, fc_color)>>
            /\ fc_i' = 1
            /\ pc' = "fc_loop"
            /\ UNCHANGED <<stack, err>>
  /\ fc_ret' = -1
  /\ UNCHANGED <<build, calls, fc_pics, fc_color,
                 preVars, cmdVars, chunkVars, mosaicVars, cmcVars>>

\* line 160
Dist == color_distance(fc_pics[fc_i + 1].color_rgb, fc_color)

\* lines 159-163: an exact match is returned at once
FcExact ==
  /\ pc = "fc_loop" /\ fc_i < Len(fc_pics)
  /\ Dist = 0
  /\ fc_ret' = fc_i
  /\ Return
  /\ UNCHANGED <<err, build, calls, fc_pics, fc_color, fc_i, closest,
                 preVars, cmdVars, chunkVars, mosaicVars, cmcVars>>

\* lines 159-167: a strictly closer picture replaces the closest
FcStep ==
  /\ pc = "fc_loop" /\ fc_i < Len(fc_pics)
  /\ Dist # 0
  /\ closest' = IF Dist < closest[2] THEN <<fc_i, Dist>> ELSE closest
  /\ fc_i' = fc_i + 1
  /\ UNCHANGED <<pc, stack, err, build, calls, fc_pics, fc_color, fc_ret,
                 preVars, cmdVars, chunkVars, mosaicVars, cmcVars>>

\* line 169
FcReturn ==
  /\ pc = "fc_loop" /\ fc_i >= Len(fc_pics)
  /\ fc_ret' = closest[1]
  /\ Return
  /\ UNCHANGED <<err, build, calls, fc_pics, fc_color, fc_i, closest,
                 preVars, cmdVars, chunkVars, mosaicVars, cmcVars>>

NextMatch ==
  \/ FcStart
  \/ FcExact
  \/ FcStep
  \/ FcReturn

----------------------------------------------------------------------------
\* create_mosaic(model, processed_folder, pics, ratio).

\* lines 194-195
CmStart ==
  /\ pc = "cm_start"
  /\ chunk_dim' = ratio_to_dim(ratio, CHUNK_SIZE)
  /\ calls' = calls \cup {"compute_main_color_by_chunk"}
  /\ Call("ck_start", "cm_alloc")
  /\ UNCHANGED <<err, build, ck_x, ck_y, color_by_chunk, views,
                 preVars, cmdVars, mosaicVars, fcVars, cmcVars>>

\* lines 197-205: the canvas, and the cursor at its origin
CmAlloc ==
  /\ pc = "cm_alloc"
  /\ thumb_dim' = ratio_to_dim(ratio, THUMBNAIL_SIZE)
  /\ IF chunk_w = 0 \/ chunk_h = 0
       THEN Panic("div_zero") /\ UNCHANGED canvas
       ELSE /\ canvas' = <<(Width(model) \div chunk_w) * thumb_dim'[1],
                           (Height(model) \div chunk_h) * thumb_dim'[2]>>
            /\ pc' = "cm_loop"
            /\ UNCHANGED <<stack, err>>
  /\ x' = 0 /\ y' = 0 /\ tile_k' = 0 /\ placed' = <<>>
  /\ UNCHANGED <<build, calls, preVars, cmdVars, chunkVars, fcVars, cmcVars>>

\* lines 206-207: the next colour is matched
CmMatch ==
  /\ pc = "cm_loop" /\ tile_k < Len(color_by_chunk)
  /\ fc_pics' = pics
  /\ fc_color' = color_by_chunk[tile_k + 1]
  /\ calls' = calls \cup {"find_closest_pic_by_color"}
  /\ Call("fc_start", "cm_copy")
  /\ UNCHANGED <<err, build, fc_i, closest, fc_ret,
                 preVars, cmdVars, chunkVars, mosaicVars, cmcVars>>

\* line 210: copy_from refuses a copy that would pass the canvas's edge
CopyFits(cv, thumb, cx, cy) ==
  cv[1] >= thumb.width + cx /\ cv[2] >= thumb.height + cy

\* mutant of Wraps: the cursor wraps one cell late
WrapsLate(cx, cv) == cx > cv[1]

\* line 213: if x >= res.width()
Wraps(cx, cv) == cx >= cv[1]

\* lines 208-216: the thumbnail is opened and copied at the cursor, which
\* moves to the next cell
CmCopy ==
  /\ pc = "cm_copy"
  /\ LET pic == fc_pics[fc_ret + 1]
     IN  IF pic.path \notin DOMAIN folder
           THEN Panic("open") /\ UNCHANGED <<placed, x, y, tile_k>>
         ELSE IF ~CopyFits(canvas, folder[pic.path], x, y)
           THEN Panic("assert_copy") /\ UNCHANGED <<placed, x, y, tile_k>>
         ELSE /\ placed' = Append(placed,
                              [pic |-> fc_ret, x |-> x, y |-> y,
                               w |-> folder[pic.path].width,
                               h |-> folder[pic.path].height])
              /\ IF Wraps(x + thumb_dim[1], canvas)
                   THEN x' = 0 /\ y' = y + thumb_dim[2]
                   ELSE x' = x + thumb_dim[1] /\ y' = y
              /\ tile_k' = tile_k + 1
              /\ pc' = "cm_loop"
              /\ UNCHANGED <<stack, err>>
  /\ UNCHANGED <<build, calls, thumb_dim, canvas,
                 preVars, cmdVars, chunkVars, fcVars, cmcVars>>

\* line 219: res is returned
CmReturn ==
  /\ pc = "cm_loop" /\ tile_k >= Len(color_by_chunk)
  /\ Return
  /\ UNCHANGED <<err, build, calls, preVars, cmdVars, chunkVars, mosaicVars, fcVars,
                 cmcVars>>

----------------------------------------------------------------------------
\* create: cmd_create(preprocessed_folder, model, output_image).

\* mutant of SameRatio: only the widths are compared
SameRatioWidth(pic, r) == pic.ratio_width = r[1]

\* line 237
SameRatio(pic, r) == pic.ratio_width = r[1] /\ pic.ratio_height = r[2]

\* lines 234-238
FilterPics(ps, r) == SelectSeq(ps, LAMBDA pic : SameRatio(pic, r))

\* lines 229-238: the catalogue and the model are loaded, the pictures of
\* the model's ratio kept
CcLoad ==
  /\ pc = "cc_start"
  /\ ratio' = compute_ratio(Width(model), Height(model))
  /\ pics' = FilterPics(metadata, ratio')
  /\ pc' = "cc_check"
  /\ UNCHANGED <<stack, err, build, calls, metadata, model, exit_code, stderr, saved,
                 preVars, chunkVars, mosaicVars, fcVars, cmcVars>>

\* lines 240-243: the diagnostic, and exit(1)
CcExitEmpty ==
  /\ pc = "cc_check" /\ pics = <<>>
  /\ stderr' = ratio
  /\ exit_code' = 1
  /\ pc' = "exit"
  /\ UNCHANGED <<stack, err, build, calls, metadata, model, ratio, pics, saved,
                 preVars, chunkVars, mosaicVars, fcVars, cmcVars>>

\* lines 245-246
CcMosaic ==
  /\ pc = "cc_check" /\ pics # <<>>
  /\ calls' = calls \cup {"create_mosaic"}
  /\ Call("cm_start", "cc_save")
  /\ UNCHANGED <<err, build, preVars, cmdVars, chunkVars, mosaicVars, fcVars, cmcVars>>

\* line 247, and main returns
CcSave ==
  /\ pc = "cc_save"
  /\ saved' = TRUE
  /\ exit_code' = 0
  /\ pc' = "done"
  /\ UNCHANGED <<stack, err, build, calls, metadata, model, ratio, pics, stderr,
                 preVars, chunkVars, mosaicVars, fcVars, cmcVars>>

NextCreate ==
  \/ CcLoad
  \/ CcExitEmpty
  \/ CcMosaic
  \/ CcSave
  \/ CmStart
  \/ CmAlloc
  \/ CmMatch
  \/ CmCopy
  \/ CmReturn
  \/ NextChunk
  \/ NextMatch

----------------------------------------------------------------------------
\* compute_main_color(img) alone.
CmcCall ==
  /\ pc = "cmc_start"
  /\ cmc_ret' = compute_main_color(cmc_img, build)
  /\ IF cmc_ret'.panic # "none"
       THEN Panic(cmc_ret'.panic)
       ELSE pc' = "done" /\ UNCHANGED <<stack, err>>
  /\ UNCHANGED <<build, calls, cmc_img,
                 preVars, cmdVars, chunkVars, mosaicVars, fcVars>>

NextColor == CmcCall

----------------------------------------------------------------------------
\* Initial states.

\* The four colours of the palette, repeated over n cells.
Tiled(n) == [j \in 1..n |-> <<Red, Green, Blue, White>>[((j - 1) % 4) + 1]]

\* Model images of cmd_create: cells of these sizes, in grids of up to
\* MaxGrid x MaxGrid.
ModelCells == {<<4, 4>>, <<10, 10>>, <<8, 6>>, <<9, 1>>}

Models ==
  {[cellw |-> d[1], cellh |-> d[2], cols |-> c, rows |-> r, cells |-> Tiled(c * r)] :
     d \in ModelCells, c \in 1..MaxGrid, r \in 1..MaxGrid}

\* Catalogues as process_pictures writes them: reduced ratios, one
\* 64 x 64 thumbnail per entry in the folder.
ThumbPaths == <<"t1.jpg", "t2.jpg", "t3.jpg", "t4.jpg">>

Ratios == {<<1, 1>>, <<4, 3>>, <<1, 2>>, <<9, 1>>}

Catalogues(colors, ratios, lens) ==
  UNION {{[i \in 1..n |->
             [path |-> ThumbPaths[i], color_rgb |-> c[i],
              ratio_width |-> r[i][1], ratio_height |-> r[i][2]]] :
            c \in [1..n -> colors], r \in [1..n -> ratios]}
         : n \in lens}

ThumbsOf(cat) ==
  [n \in {cat[i].path : i \in 1..Len(cat)} |->
     [width |-> THUMBNAIL_SIZE, height |-> THUMBNAIL_SIZE, src |-> 0]]

InitCreate ==
  /\ pc = "cc_start" /\ stack = <<>> /\ err = "none" /\ build \in Builds
  /\ calls = {"cmd_create"}
  /\ metadata \in Catalogues({Red, White}, Ratios, 0..MaxMeta)
  /\ model \in Models
  /\ ratio = <<0, 0>> /\ pics = <<>> /\ exit_code = -1 /\ stderr = <<>>
  /\ saved = FALSE
  /\ files = <<>> /\ file_i = 0 /\ pp_ratio = <<0, 0>> /\ pp_res = <<>>
  /\ stdout = <<>>
  /\ folder = ThumbsOf(metadata)
  /\ IdleChunk /\ IdleMosaic /\ IdleFc /\ IdleCmc

SpecCreate == InitCreate /\ [][NextCreate]_vars

\* find_closest_pic_by_color on any slice of 1..MaxPics pictures.
MatchColors == {<<0, 0, 0>>, <<1, 2, 0>>, <<2, 0, 0>>, <<10, 10, 10>>, White}

InitMatch ==
  /\ pc = "fc_start" /\ stack = <<>> /\ err = "none" /\ build \in Builds
  /\ calls = {"find_closest_pic_by_color"}
  /\ fc_pics \in Catalogues(MatchColors, {<<1, 1>>}, 1..MaxPics)
  /\ fc_color \in MatchColors
  /\ fc_i = 0 /\ closest = <<0, 0>> /\ fc_ret = -1
  /\ IdlePre /\ IdleCmd /\ IdleChunk /\ IdleMosaic /\ IdleCmc

SpecMatch == InitMatch /\ [][NextMatch]_vars

\* compute_main_color_by_chunk on an image of single pixels, each of its
\* own colour, with any chunk size.
Gradient(n) == [j \in 1..n |-> <<(37 * j) % 256, (11 * j * j) % 256, 255 - j>>]

InitChunk ==
  /\ pc = "ck_start" /\ stack = <<>> /\ err = "none" /\ build \in Builds
  /\ calls = {"compute_main_color_by_chunk"}
  /\ model \in {[cellw |-> 1, cellh |-> 1, cols |-> c, rows |-> r,
                   cells |-> Gradient(c * r)] : c \in 1..MaxSide, r \in 1..MaxSide}
  /\ chunk_dim \in (0..MaxChunk) \X (0..MaxChunk)
  /\ ck_x = 0 /\ ck_y = 0 /\ color_by_chunk = <<>> /\ views = <<>>
  /\ metadata = <<>> /\ ratio = <<0, 0>> /\ pics = <<>> /\ exit_code = -1
  /\ stderr = <<>> /\ saved = FALSE
  /\ IdlePre /\ IdleMosaic /\ IdleFc /\ IdleCmc

SpecChunk == InitChunk /\ [][NextChunk]_vars

\* compute_main_color on buffers of up to MaxCells x MaxCells solid cells,
\* small ones and ones of 2896 x 2896 pixels each.
CellSizes == {<<1, 1>>, <<3, 2>>, <<2896, 2896>>}

CellColors == {White, <<255, 128, 0>>, <<0, 0, 3>>}

InitColor ==
  /\ pc = "cmc_start" /\ stack = <<>> /\ err = "none" /\ build \in Builds
  /\ calls = {"compute_main_color"}
  /\ cmc_img \in UNION {{ToRgba([cellw |-> d[1], cellh |-> d[2], cols |-> c, rows |-> r,
                                   cells |-> cs]) : cs \in [1..(c * r) -> CellColors]} :
                          d \in CellSizes, c \in 1..MaxCells, r \in 1..MaxCells}
  /\ cmc_ret = <<>>
  /\ IdlePre /\ IdleCmd /\ IdleChunk /\ IdleMosaic /\ IdleFc

SpecColor == InitColor /\ [][NextColor]_vars

----------------------------------------------------------------------------
\* The program: either command.
Init == InitPreprocess \/ InitCreate

Next == NextPreprocess \/ NextCreate

Spec == Init /\ [][Next]_vars

----------------------------------------------------------------------------
\* Claims.

\* colour distance of entry i (as the code indexes it) of the slice
DistOf(i) == color_distance(fc_pics[i + 1].color_rgb, fc_color)

Indices == 0..(Len(fc_pics) - 1)

\* C1: find_closest_pic_by_color returns the first entry, in catalogue
\* order, among those whose color_distance to the query is minimal; with
\* exact matches in the slice, the one of lowest index.
C1_ReturnsFirstClosest ==
  fc_ret >= 0 =>
    /\ \A j \in Indices : DistOf(j) >= DistOf(fc_ret)
    /\ \A j \in Indices : j < fc_ret => DistOf(j) > DistOf(fc_ret)

\* C9: no entry of the slice has a strictly smaller sum of squared channel
\* differences to the query than the entry returned.
C9_ReturnsExactClosest ==
  fc_ret >= 0 =>
    \A j \in Indices :
      SqDist(fc_pics[j + 1].color_rgb, fc_color)
        >= SqDist(fc_pics[fc_ret + 1].color_rgb, fc_color)

\* the k-th cell (from 0) of a grid of `cols` cells of w x h each
CellOf(k, cols, w, h) == [x |-> (k % cols) * w, y |-> (k \div cols) * h, w |-> w, h |-> h]

GridCols == Width(model) \div chunk_w
GridRows == Height(model) \div chunk_h

\* a number that every step of the two loops lowers: while it is positive
\* a step can be taken, so the function returns
C2_Rank ==
  LET row == Width(model) + 3
  IN  CASE pc = "ck_start" -> (Height(model) + 1) * row + 1
        [] pc = "ck_outer" -> (Height(model) - ck_y + 1) * row
        [] pc = "ck_inner" -> (Height(model) - ck_y + 1) * row - 1 - ck_x
        [] OTHER -> 0

C2_Grid ==
  (chunk_w >= 1 /\ chunk_h >= 1) =>
    /\ err = "none"
    /\ Len(color_by_chunk) = Len(views)
    /\ \A k \in 1..Len(views) :
         /\ GridCols > 0
         /\ views[k] = CellOf(k - 1, GridCols, chunk_w, chunk_h)
         /\ views[k].x >= 0 /\ views[k].x + views[k].w <= Width(model)
         /\ views[k].y >= 0 /\ views[k].y + views[k].h <= Height(model)
         /\ color_by_chunk[k] =
              compute_main_color(
                ViewToImage(model, views[k].x, views[k].y, chunk_w, chunk_h), build).rgb
    /\ pc = "done" => Len(color_by_chunk) = GridCols * GridRows
    /\ pc # "done" =>
         \/ ENABLED (CkStart \/ CkRow \/ CkRowEnd \/ CkReturn)
         \/ pc = "ck_inner" /\ ColumnFits(ck_x, chunk_w, Width(model))
    /\ C2_Rank >= 0

\* C2: with chunk_w >= 1 and chunk_h >= 1, compute_main_color_by_chunk
\* terminates and emits floor(W / chunk_w) * floor(H / chunk_h) colours, the
\* k-th the colour of the k-th cell of the grid in row-major order, every
\* cell inside the image.
C2_ChunkExactness ==
  /\ []C2_Grid
  /\ [][(chunk_w >= 1 /\ chunk_h >= 1) => C2_Rank' < C2_Rank]_vars

\* a 5 x 5 image in chunks of 2 x 2: four chunks, a row and a column left
C2_Witness ==
  /\ pc = "done" /\ chunk_dim = <<2, 2>>
  /\ Width(model) = 5 /\ Height(model) = 5
  /\ Len(color_by_chunk) = 4

\* C3: every thumbnail is copied into a rectangle inside the canvas: the
\* assertion on copy_from holds at every step of the loop of create_mosaic.
C3_CopyInsideCanvas ==
  /\ err # "assert_copy"
  /\ pc = "cm_copy" =>
       CopyFits(canvas, folder[fc_pics[fc_ret + 1].path], x, y)

\* C4: the tile of the k-th chunk colour is copied at the k-th cell of the
\* canvas, ((k mod cols) * thumb_width, (k div cols) * thumb_height) with
\* cols = floor(model_width / chunk_width), the cell of its chunk.
C4_TileAtChunkCell ==
  /\ pc = "cm_copy" =>
       /\ GridCols > 0
       /\ fc_color = color_by_chunk[tile_k + 1]
       /\ views[tile_k + 1] = CellOf(tile_k, GridCols, chunk_w, chunk_h)
       /\ x = CellOf(tile_k, GridCols, thumb_dim[1], thumb_dim[2]).x
       /\ y = CellOf(tile_k, GridCols, thumb_dim[1], thumb_dim[2]).y
  /\ \A k \in 1..Len(placed) :
       /\ placed[k].x = CellOf(k - 1, GridCols, thumb_dim[1], thumb_dim[2]).x
       /\ placed[k].y = CellOf(k - 1, GridCols, thumb_dim[1], thumb_dim[2]).y
  /\ pc = "cc_save" => Len(placed) = Len(color_by_chunk)

\* a mosaic of two rows of two tiles, written whole
C4_Witness ==
  /\ pc = "cc_save" /\ Len(placed) = 4
  /\ placed[2].x = 64 /\ placed[2].y = 0
  /\ placed[3].x = 0 /\ placed[3].y = 64

\* whether no picture of the catalogue has the model's reduced ratio
NoneOfRatio ==
  LET r == compute_ratio(Width(model), Height(model))
  IN  \A i \in 1..Len(metadata) :
        ~(metadata[i].ratio_width = r[1] /\ metadata[i].ratio_height = r[2])

\* C6: with no catalogue entry of the model's reduced ratio, cmd_create
\* names the ratio on stderr and exits with code 1, without entering
\* create_mosaic or find_closest_pic_by_color and without writing the
\* output image; find_closest_pic_by_color only gets non-empty slices.
C6_EmptyCatalogueExits ==
  /\ NoneOfRatio =>
       /\ calls = {"cmd_create"}
       /\ ~saved
       /\ pc \in {"cc_start", "cc_check", "exit"}
       /\ pc = "exit" =>
            /\ exit_code = 1
            /\ stderr = compute_ratio(Width(model), Height(model))
  /\ pc = "exit" => NoneOfRatio
  /\ pc = "fc_start" => fc_pics # <<>>
  /\ err # "index"

\* a catalogue of two pictures, neither of the model's ratio
C6_Witness ==
  /\ pc = "exit" /\ exit_code = 1 /\ Len(metadata) = 2
  /\ ratio = <<4, 3>> /\ stderr = <<4, 3>>

\* the files visited so far whose decoding and saving both succeeded
Processed == SelectSeq(SubSeq(files, 1, file_i), LAMBDA f : f.outcome = "ok")

\* C5: process_pictures visits every file once, in listed order, and
\* returns one entry for each file decoded and saved, in that order, and
\* none for another; a failure on a file does not stop the later ones.
C5_SkipAndContinue ==
  /\ err = "none"
  /\ Len(stdout) = file_i + (IF pc = "pp_thumb" THEN 1 ELSE 0)
  /\ \A k \in 1..Len(stdout) : stdout[k] = <<files[k].dir, files[k].name>>
  /\ Len(pp_res) = Len(Processed)
  /\ \A k \in 1..Len(pp_res) :
       /\ pp_res[k].path = Processed[k].name
       /\ pp_res[k].color_rgb = Processed[k].img.cells[1]
  /\ pc = "pp_done" => file_i = Len(files)

\* a decode failure, then a save failure, then a picture processed
C5_Witness ==
  /\ pc = "pp_done" /\ Len(files) = 3 /\ Len(pp_res) = 1
  /\ files[1].outcome = "decode_err"
  /\ files[2].outcome = "save_err"
  /\ files[3].outcome = "ok"

\* C8: no two entries of the catalogue of a recursive walk have the same
\* path.
C8_PathsUnique ==
  \A i, j \in 1..Len(pp_res) : i < j => pp_res[i].path # pp_res[j].path

Coprime(a, b) == \A d \in 2..a : ~(a % d = 0 /\ b % d = 0)

\* C7: compute_ratio(w, h) is a pair (rw, rh) of positive coprime integers
\* with rw * h = rh * w, and a fixed point of compute_ratio; the entries of
\* process_pictures carry such ratios, two of them equal exactly when
\* w1 * h2 = w2 * h1.
C7_RatioReduced ==
  /\ pc = "pp_thumb" =>
       /\ pp_ratio[1] >= 1 /\ pp_ratio[2] >= 1
       /\ Coprime(pp_ratio[1], pp_ratio[2])
       /\ pp_ratio[1] * Height(File.img) = pp_ratio[2] * Width(File.img)
       /\ compute_ratio(pp_ratio[1], pp_ratio[2]) = pp_ratio
  /\ Len(pp_res) = Len(Processed) =>
       /\ \A k \in 1..Len(pp_res) :
            /\ pp_res[k].ratio_width >= 1 /\ pp_res[k].ratio_height >= 1
            /\ Coprime(pp_res[k].ratio_width, pp_res[k].ratio_height)
            /\ pp_res[k].ratio_width * Height(Processed[k].img)
                 = pp_res[k].ratio_height * Width(Processed[k].img)
       /\ \A k, l \in 1..Len(pp_res) :
            (/\ pp_res[k].ratio_width = pp_res[l].ratio_width
             /\ pp_res[k].ratio_height = pp_res[l].ratio_height)
            <=> (Width(Processed[k].img) * Height(Processed[l].img)
                   = Width(Processed[l].img) * Height(Processed[k].img))

\* a 6 x 4 and a 3 x 2 picture, both of ratio 3/2
C7_Witness ==
  /\ pc = "pp_done" /\ Len(pp_res) = 2
  /\ Width(files[1].img) = 6 /\ Height(files[1].img) = 4
  /\ Width(files[2].img) = 3 /\ Height(files[2].img) = 2
  /\ pp_res[1].ratio_width = 3 /\ pp_res[1].ratio_height = 2
  /\ pp_res[2].ratio_width = 3 /\ pp_res[2].ratio_height = 2

RECURSIVE ChannelTotal(_, _, _)
ChannelTotal(runs, c, j) ==
  IF j > Len(runs) THEN 0 ELSE runs[j].rgb[c] + ChannelTotal(runs, c, j + 1)

\* floor(S / N) of channel c: the runs of a buffer are all of the same
\* length n, so S / N = (n * total) / (n * runs) = total / runs
FloorMean(img, c) == ChannelTotal(img.runs, c, 1) \div Len(img.runs)

\* C10: for every image of positive area compute_main_color returns, for
\* each channel, floor(S / N), S the sum of the channel over the pixels and
\* N the pixel count; a value between the channel's smallest and largest.
C10_FloorOfMean ==
  pc # "cmc_start" =>
    /\ cmc_ret.panic = "none"
    /\ \A c \in 1..3 :
         /\ cmc_ret.rgb[c] = FloorMean(cmc_img, c)
         /\ \E j \in 1..Len(cmc_img.runs) : cmc_img.runs[j].rgb[c] <= cmc_ret.rgb[c]
         /\ \E j \in 1..Len(cmc_img.runs) : cmc_img.runs[j].rgb[c] >= cmc_ret.rgb[c]

====
